---- MODULE Spec2Model ----
(***************************************************************************)
(* A model of Tic_Tac_Toe.py: the TicTacToeGame rule engine, the           *)
(* SimpleAIAgent value table with its epsilon-greedy choose_action and its *)
(* Monte Carlo learn, the self-play loop of train_agent, play_game, and    *)
(* the replay menu of main.                                                *)
(*                                                                         *)
(* A board is the Python list of 9 one-character strings, indexed 0..8.    *)
(* A state key is the string ''.join(board), modelled as the sequence of   *)
(* its 9 characters (indexed 1..9).  Python floats are modelled as exact   *)
(* rationals <<numerator, denominator>> in lowest terms.                   *)
(***************************************************************************)
EXTENDS Integers, Sequences, FiniteSets, TLC

VARIABLES board, current_player, winner, game_over,
          epsilon, state_values, state_visits,
          op, callKind, argMark, wasOver, ret,
          occurrences,
          pc, episodes, episode, x_states, o_states, learnLog, visitsAtStart,
          human_player, play_again, attempts, prompts, games

gameVars == <<board, current_player, winner, game_over>>
agentVars == <<epsilon, state_values, state_visits>>
callVars == <<op, callKind, argMark, wasOver, ret>>
ghostVars == <<occurrences>>
trainVars == <<pc, episodes, episode, x_states, o_states, learnLog, visitsAtStart>>
mainVars == <<human_player, play_again, attempts, prompts, games>>
vars == <<board, current_player, winner, game_over,
          epsilon, state_values, state_visits,
          op, callKind, argMark, wasOver, ret,
          occurrences,
          pc, episodes, episode, x_states, o_states, learnLog, visitsAtStart,
          human_player, play_again, attempts, prompts, games>>

(***************************************************************************)
(* Bounds of the model.                                                    *)
(***************************************************************************)
\* how far outside 0..8 the positions handed to make_move reach
OutOfRange == 1

Cells == 0..8
Marks == {"X", "O"}
Empty == " "
None == "None"
Positions == (0 - OutOfRange)..(8 + OutOfRange)

(***************************************************************************)
(* TicTacToeGame                                                           *)
(***************************************************************************)
EmptyBoard == [i \in Cells |-> Empty]

\* get_state: ''.join(self.board), the string as the sequence of its characters
GetState(b) == [i \in 1..9 |-> b[i - 1]]

\* available_moves as a set of indices
AvailableSet(b) == {i \in Cells : b[i] = Empty}

RECURSIVE AscendingFrom(_, _)
AscendingFrom(S, i) ==
    IF i > 8 THEN <<>>
    ELSE IF i \in S THEN <<i>> \o AscendingFrom(S, i + 1)
    ELSE AscendingFrom(S, i + 1)

\* the comprehension without its filter: every index of the board
AvailableMovesUnfiltered(b) == AscendingFrom(Cells, 0)

\* available_moves: the list comprehension over enumerate(self.board)
AvailableMoves(b) == AscendingFrom(AvailableSet(b), 0)

\* check_win with the anti-diagonal test reading cells 2, 4, 7
CheckWinBadDiagonal(b, player) ==
    \/ \E r \in {0, 3, 6} : b[r] = player /\ b[r + 1] = player /\ b[r + 2] = player
    \/ \E c \in {0, 1, 2} : b[c] = player /\ b[c + 3] = player /\ b[c + 6] = player
    \/ (b[0] = player /\ b[4] = player /\ b[8] = player)
    \/ (b[2] = player /\ b[4] = player /\ b[7] = player)

\* check_win: rows, columns, the two diagonals
CheckWin(b, player) ==
    \/ \E r \in {0, 3, 6} : b[r] = player /\ b[r + 1] = player /\ b[r + 2] = player
    \/ \E c \in {0, 1, 2} : b[c] = player /\ b[c + 3] = player /\ b[c + 6] = player
    \/ (b[0] = player /\ b[4] = player /\ b[8] = player)
    \/ (b[2] = player /\ b[4] = player /\ b[6] = player)

\* a tie test that never reports a tie
CheckTieNever(b, w) == FALSE

\* check_tie: ' ' not in self.board and self.winner is None
CheckTie(b, w) == (\A i \in Cells : b[i] # Empty) /\ w = None

\* the legality test accepting every index of the board, occupied or not
IsAvailableAnyCell(b, position) == position \in Cells

\* position in self.available_moves()
IsAvailable(b, position) == position \in AvailableSet(b)

\* what a position is to a board before a call: an empty cell, an occupied
\* cell, or no index of the board
PositionKind(b, position) ==
    IF position \notin Cells THEN "outside"
    ELSE IF b[position] = Empty THEN "empty" ELSE "occupied"

\* player = self.current_player when the caller passes None
EffectivePlayer(cp, player) == IF player = None THEN cp ELSE player

\* a toggle that leaves the turn with the same mark
ToggleStuck(cp) == cp

\* the toggle to the mark other than self.current_player
Toggle(cp) == IF cp = "X" THEN "O" ELSE "X"

\* the termination branch with the tie test ahead of the win test
OutcomeTieFirst(b, cp, w, go, player) ==
    IF CheckTie(b, w)
    THEN [current_player |-> cp, winner |-> w, game_over |-> TRUE]
    ELSE IF CheckWin(b, player)
    THEN [current_player |-> cp, winner |-> player, game_over |-> TRUE]
    ELSE [current_player |-> Toggle(cp), winner |-> w, game_over |-> go]

\* the termination branch without the win test
OutcomeWinUnnoticed(b, cp, w, go, player) ==
    IF CheckTie(b, w)
    THEN [current_player |-> cp, winner |-> w, game_over |-> TRUE]
    ELSE [current_player |-> Toggle(cp), winner |-> w, game_over |-> go]

\* the termination branch that passes the turn on after a winning move
OutcomeToggleOnWin(b, cp, w, go, player) ==
    IF CheckWin(b, player)
    THEN [current_player |-> Toggle(cp), winner |-> player, game_over |-> TRUE]
    ELSE IF CheckTie(b, w)
    THEN [current_player |-> cp, winner |-> w, game_over |-> TRUE]
    ELSE [current_player |-> Toggle(cp), winner |-> w, game_over |-> go]

\* make_move, lines 53-61: win, else tie, else switch player; b is the board
\* with the move already written
Outcome(b, cp, w, go, player) ==
    IF CheckWin(b, player)
    THEN [current_player |-> cp, winner |-> player, game_over |-> TRUE]
    ELSE IF CheckTie(b, w)
    THEN [current_player |-> cp, winner |-> w, game_over |-> TRUE]
    ELSE [current_player |-> Toggle(cp), winner |-> w, game_over |-> go]

\* make_move as a function of the session: the returned flag and the session after
MakeMoveResult(b, cp, w, go, position, player) ==
    LET p == EffectivePlayer(cp, player) IN
    IF ~IsAvailable(b, position)
    THEN [ret |-> FALSE, board |-> b, current_player |-> cp,
          winner |-> w, game_over |-> go]
    ELSE LET nb == [b EXCEPT ![position] = p]
             o == Outcome(nb, cp, w, go, p)
         IN [ret |-> TRUE, board |-> nb, current_player |-> o.current_player,
             winner |-> o.winner, game_over |-> o.game_over]

(***************************************************************************)
(* SimpleAIAgent: numbers                                                  *)
(***************************************************************************)
RECURSIVE GCD(_, _)
GCD(a, b) == IF b = 0 THEN a ELSE GCD(b, a % b)

Abs(n) == IF n < 0 THEN 0 - n ELSE n

\* the rational n/d (d > 0) in lowest terms
Norm(n, d) == LET g == GCD(Abs(n), d) IN <<n \div g, d \div g>>

RAdd(a, b) == Norm(a[1] * b[2] + b[1] * a[2], a[2] * b[2])
RSub(a, b) == Norm(a[1] * b[2] - b[1] * a[2], a[2] * b[2])
RDivInt(a, n) == Norm(a[1], a[2] * n)
RLess(a, b) == a[1] * b[2] < b[1] * a[2]

Zero == <<0, 1>>
Half == <<1, 2>>
One == <<1, 1>>
Tenth == <<1, 10>>

\* float('-inf'), below every value
NegInf == "-inf"
Greater(value, best) == best = NegInf \/ (best # NegInf /\ RLess(best, value))

\* the table f with key k bound to v
Put(f, k, v) == [x \in DOMAIN f \cup {k} |-> IF x = k THEN v ELSE f[x]]

\* a read of a defaultdict: the value under the key, and the table after the
\* read, in which a key that was missing is bound to the default
DefaultGet(f, k, default) ==
    IF k \in DOMAIN f
    THEN [value |-> f[k], table |-> f]
    ELSE [value |-> default, table |-> Put(f, k, default)]

(***************************************************************************)
(* SimpleAIAgent.choose_action                                             *)
(***************************************************************************)
\* the probe written through the live list: board_copy = game.board
SimulateMoveAliased(b, move, player) ==
    [live |-> [b EXCEPT ![move] = player], copy |-> [b EXCEPT ![move] = player]]

\* lines 116-119: the move is written into a copy; the live list is left alone
SimulateMove(b, move, player) ==
    [live |-> b, copy |-> [b EXCEPT ![move] = player]]

\* the tracking that keeps only the first move of the maximum
TrackBestNoTies(best_value, best_moves, value, move) ==
    IF Greater(value, best_value)
    THEN [best_value |-> value, best_moves |-> <<move>>]
    ELSE [best_value |-> best_value, best_moves |-> best_moves]

\* lines 126-130: a larger value restarts the list, an equal one joins it
TrackBest(best_value, best_moves, value, move) ==
    IF Greater(value, best_value)
    THEN [best_value |-> value, best_moves |-> <<move>>]
    ELSE IF value = best_value
    THEN [best_value |-> best_value, best_moves |-> Append(best_moves, move)]
    ELSE [best_value |-> best_value, best_moves |-> best_moves]

\* lines 114-130: the loop over the available moves from the i-th on
RECURSIVE ScanMoves(_, _, _, _, _, _, _)
ScanMoves(available, i, live, player, values, best_value, best_moves) ==
    IF i > Len(available)
    THEN [live |-> live, values |-> values,
          best_value |-> best_value, best_moves |-> best_moves]
    ELSE LET move == available[i]
             sim == SimulateMove(live, move, player)
             next_state == GetState(sim.copy)
             look == DefaultGet(values, next_state, Zero)
             upd == TrackBest(best_value, best_moves, look.value, move)
         IN ScanMoves(available, i + 1, sim.live, player, look.table,
                      upd.best_value, upd.best_moves)

\* choose_action up to its random.choice: the branch taken, the list handed
\* to random.choice, and the value table and live board after the call.
\* draw is the value random.random() returned.
ChooseActionResult(b, player, values, eps, draw) ==
    LET available == AvailableMoves(b) IN
    IF RLess(draw, eps)
    THEN [branch |-> "explore", choices |-> available, values |-> values, live |-> b]
    ELSE LET scan == ScanMoves(available, 1, b, player, values, NegInf, <<>>) IN
         [branch |-> "exploit",
          choices |-> IF scan.best_moves = <<>> THEN available ELSE scan.best_moves,
          values |-> scan.values, live |-> scan.live]

(***************************************************************************)
(* SimpleAIAgent.learn                                                     *)
(***************************************************************************)
\* the update that divides by the visit count before incrementing it
LearnStepDivideFirst(values, visits, state, reward) ==
    LET n == DefaultGet(visits, state, 0)
        old == DefaultGet(values, state, Zero)
    IN IF n.value = 0
       THEN [raised |-> TRUE, values |-> old.table, visits |-> n.table]
       ELSE [raised |-> FALSE,
             values |-> Put(old.table, state,
                            RAdd(old.value, RDivInt(RSub(reward, old.value), n.value))),
             visits |-> Put(n.table, state, n.value + 1)]

\* the update with twice the step: value += 2 * (reward - value) / visits
LearnStepDoubleStep(values, visits, state, reward) ==
    LET n == DefaultGet(visits, state, 0)
        visits1 == Put(n.table, state, n.value + 1)
        old == DefaultGet(values, state, Zero)
        step == RDivInt(RSub(reward, old.value), visits1[state])
    IN [raised |-> FALSE,
        values |-> Put(old.table, state, RAdd(old.value, RAdd(step, step))),
        visits |-> visits1]

\* lines 144-146 for one state of the trajectory: the visit count goes up by
\* one, then value += (reward - value) / visits; a zero divisor raises
LearnStep(values, visits, state, reward) ==
    LET n == DefaultGet(visits, state, 0)
        visits1 == Put(n.table, state, n.value + 1)
        old == DefaultGet(values, state, Zero)
    IN IF visits1[state] = 0
       THEN [raised |-> TRUE, values |-> old.table, visits |-> visits1]
       ELSE [raised |-> FALSE,
             values |-> Put(old.table, state,
                            RAdd(old.value,
                                 RDivInt(RSub(reward, old.value), visits1[state]))),
             visits |-> visits1]

\* learn: the loop over state_history from its i-th element on
RECURSIVE LearnFrom(_, _, _, _, _)
LearnFrom(state_history, i, values, visits, reward) ==
    IF i > Len(state_history)
    THEN [raised |-> FALSE, values |-> values, visits |-> visits]
    ELSE LET step == LearnStep(values, visits, state_history[i], reward) IN
         IF step.raised THEN step
         ELSE LearnFrom(state_history, i + 1, step.values, step.visits, reward)

LearnResult(state_history, values, visits, reward) ==
    LearnFrom(state_history, 1, values, visits, reward)

(***************************************************************************)
(* The state after construction: TicTacToeGame() has run reset(), the      *)
(* agent's two tables are empty.                                           *)
(***************************************************************************)
InitGame ==
    /\ board = EmptyBoard
    /\ current_player = "X"
    /\ winner = None
    /\ game_over = FALSE

InitAgent ==
    /\ state_values = <<>>
    /\ state_visits = <<>>

InitCall ==
    /\ op = "init"
    /\ callKind = None
    /\ argMark = None
    /\ wasOver = FALSE
    /\ ret = None

(***************************************************************************)
(* The game engine driven through its public operations by any caller.     *)
(***************************************************************************)
\* reset()
Reset ==
    /\ board' = EmptyBoard
    /\ current_player' = "X"
    /\ winner' = None
    /\ game_over' = FALSE
    /\ op' = "reset"
    /\ callKind' = None
    /\ argMark' = None
    /\ wasOver' = game_over
    /\ ret' = GetState(EmptyBoard)
    /\ UNCHANGED <<agentVars, ghostVars, trainVars, mainVars>>

\* make_move(position, player); callKind records what the position was to the
\* board when the call was made, argMark the mark the call wrote (None when it
\* wrote none), wasOver the value of game_over when the call was made
MakeMove(position, player) ==
    \E r \in {MakeMoveResult(board, current_player, winner, game_over, position, player)} :
    /\ board' = r.board
    /\ current_player' = r.current_player
    /\ winner' = r.winner
    /\ game_over' = r.game_over
    /\ op' = "make_move"
    /\ callKind' = PositionKind(board, position)
    /\ argMark' = IF r.ret THEN EffectivePlayer(current_player, player) ELSE None
    /\ wasOver' = game_over
    /\ ret' = r.ret
    /\ UNCHANGED <<agentVars, ghostVars, trainVars, mainVars>>

InitGhost == occurrences = <<>>

\* no train_agent call is under way
InitNoTraining ==
    /\ pc = "idle"
    /\ episodes = 0
    /\ episode = 0
    /\ x_states = <<>>
    /\ o_states = <<>>
    /\ learnLog = <<>>
    /\ visitsAtStart = <<>>

\* main has not reached its game loop
InitNoMain ==
    /\ human_player = None
    /\ play_again = None
    /\ attempts = 0
    /\ prompts = 0
    /\ games = 0

InitEngine ==
    /\ InitGame /\ InitAgent /\ InitCall /\ InitGhost /\ InitNoTraining /\ InitNoMain
    /\ epsilon = Tenth

NextEngine ==
    \/ Reset
    \/ \E position \in Positions, player \in Marks \cup {None} : MakeMove(position, player)

SpecGame == InitEngine /\ [][NextEngine]_vars

(***************************************************************************)
(* The agent driven through choose_action and learn by any caller, on a    *)
(* session that play has brought to a board with a few empty cells.        *)
(***************************************************************************)
\* the total number of visits learn may add to the table
MaxLearned == 3

\* the moves played (by the marks in turn) before the agent is consulted
ProbeScripts == {<<4, 0, 8, 2, 1, 7>>, <<4, 0, 8, 2, 1, 7, 3>>}

\* exploration rates: never explore, main's 0.1, always explore
Epsilons == {Zero, Tenth, One}

\* values random.random() returns
RandomDraws == {Zero, Half}

\* the rewards train_agent hands to learn
Rewards == {Zero, Half, One}

\* the session after reset() and make_move(script[i]) for each i in turn
RECURSIVE PlayFrom(_, _, _)
PlayFrom(session, script, i) ==
    IF i > Len(script) THEN session
    ELSE LET r == MakeMoveResult(session.board, session.current_player,
                                 session.winner, session.game_over, script[i], None)
         IN PlayFrom([board |-> r.board, current_player |-> r.current_player,
                      winner |-> r.winner, game_over |-> r.game_over], script, i + 1)

Play(script) ==
    PlayFrom([board |-> EmptyBoard, current_player |-> "X",
              winner |-> None, game_over |-> FALSE], script, 1)

\* the keys learn is called with: the boards one move of the mark to move
\* away from the live board, the keys choose_action looks up for that mark
LearnKeys(b, cp) == {GetState([b EXCEPT ![m] = cp]) : m \in AvailableSet(b)}

\* state histories of one or two keys, a repeated key included
Trajectories(K) == {<<a>> : a \in K} \cup {<<a, b>> : a \in K, b \in K}

RECURSIVE SumOver(_, _)
SumOver(f, S) ==
    IF S = {} THEN 0
    ELSE LET k == CHOOSE x \in S : TRUE IN f[k] + SumOver(f, S \ {k})

TotalVisits(visits) == SumOver(visits, DOMAIN visits)

\* the record of what learn has been handed: per key, how often it occurred
\* in a state history and the sum of the rewards of those occurrences
RECURSIVE Recorded(_, _, _, _)
Recorded(occ, state_history, i, reward) ==
    IF i > Len(state_history) THEN occ
    ELSE LET k == state_history[i]
             old == IF k \in DOMAIN occ THEN occ[k] ELSE [count |-> 0, sum |-> Zero]
         IN Recorded(Put(occ, k, [count |-> old.count + 1, sum |-> RAdd(old.sum, reward)]),
                     state_history, i + 1, reward)

\* learn(state_history, reward)
Learn(state_history, reward) ==
    \E r \in {LearnResult(state_history, state_values, state_visits, reward)} :
    /\ TotalVisits(state_visits) + Len(state_history) <= MaxLearned
    /\ state_values' = r.values
    /\ state_visits' = r.visits
    /\ op' = "learn"
    /\ callKind' = None
    /\ argMark' = None
    /\ wasOver' = game_over
    /\ ret' = IF r.raised THEN "ZeroDivisionError" ELSE None
    /\ occurrences' = Recorded(occurrences, state_history, 1, reward)
    /\ UNCHANGED <<gameVars, epsilon, trainVars, mainVars>>

\* choose_action(game, player): random.choice returns any element of the list
\* it is handed and raises IndexError on an empty one
ChooseAction(player) ==
    \E draw \in RandomDraws :
    \E r \in {ChooseActionResult(board, player, state_values, epsilon, draw)} :
        /\ board' = r.live
        /\ state_values' = r.values
        /\ IF r.choices = <<>>
           THEN ret' = "IndexError"
           ELSE \E i \in 1..Len(r.choices) : ret' = r.choices[i]
        /\ op' = "choose_action"
        /\ callKind' = r.branch
        /\ argMark' = player
        /\ wasOver' = game_over
        /\ UNCHANGED <<current_player, winner, game_over, epsilon, state_visits,
                       ghostVars, trainVars, mainVars>>

InitProbe ==
    /\ \E script \in ProbeScripts :
          LET s == Play(script) IN
          /\ board = s.board
          /\ current_player = s.current_player
          /\ winner = s.winner
          /\ game_over = s.game_over
    /\ epsilon \in Epsilons
    /\ InitAgent /\ InitCall /\ InitGhost /\ InitNoTraining /\ InitNoMain

NextAgent ==
    \/ \E state_history \in Trajectories(LearnKeys(board, current_player)),
          reward \in Rewards : Learn(state_history, reward)
    \/ \E player \in Marks : ChooseAction(player)

SpecAgent == InitProbe /\ [][NextAgent]_vars

(***************************************************************************)
(* train_agent(agent, episodes): self-play                                 *)
(***************************************************************************)
\* the largest episode count train_agent is called with
MaxEpisodes == 1

\* (episode + 1) % 1000 == 0
ProgressEvery == 1000

\* exploration rates of the agent in training: every call of choose_action
\* exploits, or every call explores.  Under a rate strictly between, each
\* call takes one of these two branches.
TrainEpsilons == {Zero, One}

\* the elements random.choice returns in training: the first or the last of
\* the list it is handed; in a training of more than MaxEpisodes episodes,
\* the first
TrainPicks(choices) ==
    IF episodes > MaxEpisodes
    THEN {choices[1]}
    ELSE {choices[1], choices[Len(choices)]}

\* the calls of learn that mirror the rewards of a win of O onto X
EpisodeLearnCallsXAlwaysWins(w, xs, os) ==
    IF w = "X" \/ w = "O"
    THEN <<[state_history |-> xs, reward |-> One], [state_history |-> os, reward |-> Zero]>>
    ELSE <<[state_history |-> xs, reward |-> Half], [state_history |-> os, reward |-> Half]>>

\* the calls of learn with the two trajectories exchanged
EpisodeLearnCallsSwapped(w, xs, os) ==
    IF w = "X"
    THEN <<[state_history |-> os, reward |-> One], [state_history |-> xs, reward |-> Zero]>>
    ELSE IF w = "O"
    THEN <<[state_history |-> os, reward |-> Zero], [state_history |-> xs, reward |-> One]>>
    ELSE <<[state_history |-> os, reward |-> Half], [state_history |-> xs, reward |-> Half]>>

\* lines 176-184: the two calls of learn an episode ends with, in order
EpisodeLearnCalls(w, xs, os) ==
    IF w = "X"
    THEN <<[state_history |-> xs, reward |-> One], [state_history |-> os, reward |-> Zero]>>
    ELSE IF w = "O"
    THEN <<[state_history |-> xs, reward |-> Zero], [state_history |-> os, reward |-> One]>>
    ELSE <<[state_history |-> xs, reward |-> Half], [state_history |-> os, reward |-> Half]>>

\* the calls of learn made one after the other, from the i-th on
RECURSIVE LearnAll(_, _, _, _)
LearnAll(calls, i, values, visits) ==
    IF i > Len(calls)
    THEN [raised |-> FALSE, values |-> values, visits |-> visits]
    ELSE LET r == LearnResult(calls[i].state_history, values, visits, calls[i].reward) IN
         IF r.raised THEN r ELSE LearnAll(calls, i + 1, r.values, r.visits)

RECURSIVE RecordedAll(_, _, _)
RecordedAll(occ, calls, i) ==
    IF i > Len(calls) THEN occ
    ELSE RecordedAll(Recorded(occ, calls[i].state_history, 1, calls[i].reward), calls, i + 1)

\* the head of the for loop with an episode left: lines 155-159
TrainEpisodeStart ==
    /\ pc = "for"
    /\ episode < episodes
    /\ board' = EmptyBoard
    /\ current_player' = "X"
    /\ winner' = None
    /\ game_over' = FALSE
    /\ x_states' = <<>>
    /\ o_states' = <<>>
    /\ learnLog' = <<>>
    /\ visitsAtStart' = state_visits
    /\ pc' = "while"
    /\ op' = "reset"
    /\ callKind' = None
    /\ argMark' = None
    /\ wasOver' = game_over
    /\ ret' = GetState(EmptyBoard)
    /\ UNCHANGED <<agentVars, ghostVars, episodes, episode, mainVars>>

\* the for loop is exhausted: train_agent returns
TrainReturn ==
    /\ pc = "for"
    /\ episode >= episodes
    /\ pc' = "returned"
    /\ UNCHANGED <<gameVars, agentVars, callVars, ghostVars,
                   episodes, episode, x_states, o_states, learnLog, visitsAtStart,
                   mainVars>>

\* one turn of the while loop, lines 161-173: the state is recorded for the
\* mark to move, choose_action picks, make_move(move) plays
TrainMove ==
    /\ pc = "while"
    /\ ~game_over
    /\ x_states' = IF current_player = "X"
                   THEN Append(x_states, GetState(board)) ELSE x_states
    /\ o_states' = IF current_player = "X"
                   THEN o_states ELSE Append(o_states, GetState(board))
    /\ \E draw \in RandomDraws :
      \E r \in {ChooseActionResult(board, current_player, state_values, epsilon, draw)} :
          /\ state_values' = r.values
          /\ wasOver' = game_over
          /\ IF r.choices = <<>>
             THEN /\ pc' = "raised"
                  /\ op' = "choose_action"
                  /\ callKind' = r.branch
                  /\ argMark' = current_player
                  /\ ret' = "IndexError"
                  /\ board' = r.live
                  /\ UNCHANGED <<current_player, winner, game_over>>
             ELSE \E move \in TrainPicks(r.choices) :
                  \E m \in {MakeMoveResult(r.live, current_player, winner,
                                            game_over, move, None)} :
                      /\ board' = m.board
                      /\ current_player' = m.current_player
                      /\ winner' = m.winner
                      /\ game_over' = m.game_over
                      /\ op' = "make_move"
                      /\ callKind' = PositionKind(r.live, move)
                      /\ argMark' = IF m.ret THEN EffectivePlayer(current_player, None)
                                    ELSE None
                      /\ ret' = m.ret
                      /\ pc' = "while"
    /\ UNCHANGED <<epsilon, state_visits, ghostVars, episodes, episode,
                   learnLog, visitsAtStart, mainVars>>

\* the end of an episode, lines 175-188: the two calls of learn, then the
\* progress test, which returns from train_agent
TrainLearn ==
    /\ pc = "while"
    /\ game_over
    /\ \E calls \in {EpisodeLearnCalls(winner, x_states, o_states)} :
       \E r \in {LearnAll(calls, 1, state_values, state_visits)} :
          /\ state_values' = r.values
          /\ state_visits' = r.visits
          /\ learnLog' = calls
          /\ occurrences' = RecordedAll(occurrences, calls, 1)
          /\ ret' = IF r.raised THEN "ZeroDivisionError" ELSE None
          /\ IF r.raised
             THEN pc' = "raised" /\ episode' = episode
             ELSE IF (episode + 1) % ProgressEvery = 0
             THEN pc' = "returned" /\ episode' = episode
             ELSE pc' = "for" /\ episode' = episode + 1
    /\ op' = "learn"
    /\ callKind' = None
    /\ argMark' = None
    /\ wasOver' = game_over
    /\ UNCHANGED <<gameVars, epsilon, episodes, x_states, o_states, visitsAtStart,
                   mainVars>>

InitTrain ==
    /\ InitGame /\ InitAgent /\ InitCall /\ InitGhost /\ InitNoMain
    /\ epsilon \in TrainEpsilons
    /\ episodes \in 0..MaxEpisodes
    /\ pc = "for"
    /\ episode = 0
    /\ x_states = <<>>
    /\ o_states = <<>>
    /\ learnLog = <<>>
    /\ visitsAtStart = <<>>

NextTrain ==
    \/ TrainEpisodeStart
    \/ TrainMove
    \/ TrainLearn
    \/ TrainReturn

SpecTrain == InitTrain /\ [][NextTrain]_vars

\* train_agent called with an episode count around the one at which the
\* progress test of line 187 is first true
LongTrainings ==
    {ProgressEvery - MaxEpisodes, ProgressEvery, ProgressEvery + MaxEpisodes}

InitTrainLong ==
    /\ InitGame /\ InitAgent /\ InitCall /\ InitGhost /\ InitNoMain
    /\ epsilon \in TrainEpsilons
    /\ episodes \in LongTrainings
    /\ pc = "for"
    /\ episode = 0
    /\ x_states = <<>>
    /\ o_states = <<>>
    /\ learnLog = <<>>
    /\ visitsAtStart = <<>>

SpecTrainLong == InitTrainLong /\ [][NextTrain]_vars

(***************************************************************************)
(* play_game(agent): one game of a human against the agent                 *)
(***************************************************************************)
\* what is typed at "Do you want to be X (goes first) or O? "
MarkAnswers == {"x", "X", "o", "O", "", "yes"}

\* str.upper on the answers typed
Upper(s) == IF s = "x" THEN "X" ELSE IF s = "o" THEN "O" ELSE IF s = "yes" THEN "YES" ELSE s

\* lines 211-213: anything but X or O makes the human X
HumanPlayer(answer) == IF Upper(answer) \in Marks THEN Upper(answer) ELSE "X"

\* line 215
AiPlayer(human) == IF human = "X" THEN "O" ELSE "X"

\* get_human_move: the numbers typed, less one, that pass the test of line 197
\* and so are returned; any other number is asked for again
GetHumanMoves(b) ==
    {move \in Positions : 0 <= move /\ move <= 8 /\ move \in AvailableSet(b)}

\* lines 207-215: game = TicTacToeGame(), the human picks a mark
PlayGameStart(answer) ==
    /\ pc = "start"
    /\ board' = EmptyBoard
    /\ current_player' = "X"
    /\ winner' = None
    /\ game_over' = FALSE
    /\ human_player' = HumanPlayer(answer)
    /\ games' = games + 1
    /\ pc' = "play"
    /\ op' = "reset"
    /\ callKind' = None
    /\ argMark' = None
    /\ wasOver' = game_over
    /\ ret' = GetState(EmptyBoard)
    /\ UNCHANGED <<agentVars, ghostVars, episodes, episode, x_states, o_states,
                   learnLog, visitsAtStart, play_again, attempts, prompts>>

\* lines 222-226: the human's turn
HumanMove ==
    /\ pc = "play"
    /\ ~game_over
    /\ current_player = human_player
    /\ \E move \in GetHumanMoves(board) :
       \E m \in {MakeMoveResult(board, current_player, winner, game_over, move, None)} :
          /\ board' = m.board
          /\ current_player' = m.current_player
          /\ winner' = m.winner
          /\ game_over' = m.game_over
          /\ op' = "make_move"
          /\ callKind' = PositionKind(board, move)
          /\ argMark' = IF m.ret THEN EffectivePlayer(current_player, None) ELSE None
          /\ wasOver' = game_over
          /\ ret' = m.ret
    /\ UNCHANGED <<agentVars, ghostVars, trainVars, mainVars>>

\* lines 227-232: the agent's turn, choose_action(game, ai_player) and then
\* make_move(move)
AIMove ==
    /\ pc = "play"
    /\ ~game_over
    /\ current_player # human_player
    /\ \E draw \in RandomDraws :
       \E r \in {ChooseActionResult(board, AiPlayer(human_player), state_values,
                                    epsilon, draw)} :
          /\ state_values' = r.values
          /\ wasOver' = game_over
          /\ IF r.choices = <<>>
             THEN /\ pc' = "raised"
                  /\ op' = "choose_action"
                  /\ callKind' = r.branch
                  /\ argMark' = AiPlayer(human_player)
                  /\ ret' = "IndexError"
                  /\ board' = r.live
                  /\ UNCHANGED <<current_player, winner, game_over>>
             ELSE \E move \in TrainPicks(r.choices) :
                  \E m \in {MakeMoveResult(r.live, current_player, winner,
                                            game_over, move, None)} :
                      /\ board' = m.board
                      /\ current_player' = m.current_player
                      /\ winner' = m.winner
                      /\ game_over' = m.game_over
                      /\ op' = "make_move"
                      /\ callKind' = PositionKind(r.live, move)
                      /\ argMark' = IF m.ret THEN EffectivePlayer(current_player, None)
                                    ELSE None
                      /\ ret' = m.ret
                      /\ pc' = "play"
    /\ UNCHANGED <<epsilon, state_visits, ghostVars, episodes, episode, x_states,
                   o_states, learnLog, visitsAtStart, mainVars>>

\* the while loop of line 221 ends, play_game returns to main, which sets
\* max_attempts and attempts (lines 287-288)
PlayGameReturn ==
    /\ pc = "play"
    /\ game_over
    /\ pc' = "prompt"
    /\ attempts' = 0
    /\ prompts' = 0
    /\ UNCHANGED <<gameVars, agentVars, callVars, ghostVars, episodes, episode,
                   x_states, o_states, learnLog, visitsAtStart,
                   human_player, play_again, games>>

\* play_game is about to be called with an agent whose table is empty
InitPlay ==
    /\ InitGame /\ InitAgent /\ InitCall /\ InitGhost /\ InitNoMain
    /\ epsilon \in TrainEpsilons
    /\ pc = "start"
    /\ episodes = 0
    /\ episode = 0
    /\ x_states = <<>>
    /\ o_states = <<>>
    /\ learnLog = <<>>
    /\ visitsAtStart = <<>>

NextPlay ==
    \/ \E answer \in MarkAnswers : PlayGameStart(answer)
    \/ HumanMove
    \/ AIMove
    \/ PlayGameReturn

(***************************************************************************)
(* The callers of choose_action: train_agent, play_game, and a call on a   *)
(* board that has been filled.                                             *)
(***************************************************************************)
\* games that fill the board: a tie, and a win of X on the ninth move
FullBoardScripts == {<<0, 1, 2, 4, 3, 5, 7, 6, 8>>, <<0, 1, 2, 3, 4, 5, 7, 8, 6>>}

InitFullBoard ==
    /\ \E script \in FullBoardScripts :
          LET s == Play(script) IN
          /\ board = s.board
          /\ current_player = s.current_player
          /\ winner = s.winner
          /\ game_over = s.game_over
    /\ epsilon \in Epsilons
    /\ InitAgent /\ InitCall /\ InitGhost /\ InitNoTraining /\ InitNoMain

NextCallers ==
    \/ NextTrain
    \/ NextPlay
    \/ (pc = "idle" /\ \E player \in Marks : ChooseAction(player))

SpecCallers == (InitTrain \/ InitPlay \/ InitFullBoard) /\ [][NextCallers]_vars

(***************************************************************************)
(* main from line 283 on: games and the replay menu                        *)
(***************************************************************************)
\* the largest number of games played in one run of main
MaxGames == 2

\* line 287
max_attempts == 4

\* what is typed at "Do you want to play again? (yes/no): "
ReplayAnswers == {"yes", "no", "YES", "No", "y", ""}

\* str.lower on the answers typed
Lower(s) == IF s = "YES" THEN "yes" ELSE IF s = "No" THEN "no" ELSE s

\* one turn of the while loop of lines 289-294
Prompt(answer) ==
    /\ pc = "prompt"
    /\ attempts < max_attempts
    /\ play_again' = Lower(answer)
    /\ prompts' = prompts + 1
    /\ IF Lower(answer) \in {"yes", "no"}
       THEN /\ attempts' = attempts
            /\ pc' = "decide"
       ELSE /\ attempts' = attempts + 1
            /\ pc' = IF attempts + 1 < max_attempts THEN "prompt" ELSE "decide"
    /\ UNCHANGED <<gameVars, agentVars, callVars, ghostVars, episodes, episode,
                   x_states, o_states, learnLog, visitsAtStart, human_player, games>>

\* the decision that plays again on every answer but 'no'
DecideUnlessNo ==
    /\ pc = "decide"
    /\ IF play_again # "no"
       THEN games < MaxGames /\ pc' = "start"
       ELSE pc' = "exited"
    /\ UNCHANGED <<gameVars, agentVars, callVars, ghostVars, episodes, episode,
                   x_states, o_states, learnLog, visitsAtStart, mainVars>>

\* lines 296-305: continue on 'yes', break otherwise
Decide ==
    /\ pc = "decide"
    /\ IF play_again = "yes"
       THEN games < MaxGames /\ pc' = "start"
       ELSE pc' = "exited"
    /\ UNCHANGED <<gameVars, agentVars, callVars, ghostVars, episodes, episode,
                   x_states, o_states, learnLog, visitsAtStart, mainVars>>

\* main after training; every call of choose_action explores
InitMain ==
    /\ InitGame /\ InitAgent /\ InitCall /\ InitGhost /\ InitNoMain
    /\ epsilon = One
    /\ pc = "start"
    /\ episodes = 0
    /\ episode = 0
    /\ x_states = <<>>
    /\ o_states = <<>>
    /\ learnLog = <<>>
    /\ visitsAtStart = <<>>

NextMain ==
    \/ NextPlay
    \/ \E answer \in ReplayAnswers : Prompt(answer)
    \/ Decide

SpecMain == InitMain /\ [][NextMain]_vars

(***************************************************************************)
(* Properties of the game engine                                           *)
(***************************************************************************)
Lines == {{0, 1, 2}, {3, 4, 5}, {6, 7, 8},
          {0, 3, 6}, {1, 4, 7}, {2, 5, 8},
          {0, 4, 8}, {2, 4, 6}}

HasLine(b, m) == \E l \in Lines : \A i \in l : b[i] = m

IsFull(b) == \A i \in Cells : b[i] # Empty

OtherMark(m) == IF m = "X" THEN "O" ELSE "X"

\* C1: a make_move on an occupied cell or on an integer outside 0..8 returns
\* False and leaves board, current_player, winner and game_over as they were.
C1_IllegalMoveRejected ==
    [][(op' = "make_move" /\ callKind' \in {"occupied", "outside"})
          => (ret' = FALSE /\ UNCHANGED gameVars)]_vars

\* a rejected move on an occupied cell of a game that is already under way
C1_Witness ==
    /\ op = "make_move"
    /\ callKind = "occupied"
    /\ ret = FALSE
    /\ winner # None

\* C2: game_over implies a winner or a full board, and a winner holds a
\* complete row, column or diagonal; moves after game_over included.
C2_SessionInvariant ==
    /\ game_over => (winner # None \/ IsFull(board))
    /\ \A m \in Marks : winner = m => HasLine(board, m)

\* a move by O applied after X has won
C2_Witness ==
    /\ op = "make_move"
    /\ ret = TRUE
    /\ wasOver
    /\ argMark = "O"
    /\ winner = "X"

\* C3: check_win is true for at most one mark in every state reached from
\* reset() through successful make_move calls.
C3_AtMostOneWinner == ~(CheckWin(board, "X") /\ CheckWin(board, "O"))

\* C4: after a successful move the outcome is decided win first, then tie,
\* then play goes on: a line of the mover sets winner and game_over; else a
\* full board sets game_over and leaves winner as it was (unset in a game
\* that was not over: a tie); else game_over keeps its value.
C4_OutcomeOrder ==
    [][(op' = "make_move" /\ ret' = TRUE) =>
          IF HasLine(board', argMark')
          THEN winner' = argMark' /\ game_over' = TRUE
          ELSE IF IsFull(board')
          THEN /\ game_over' = TRUE
               /\ winner' = winner
               /\ (~game_over => winner' = None)
          ELSE game_over' = game_over]_vars

\* the ninth cell is filled by a move that completes a line of the mover, in
\* a game that was not over before the move
C4_Witness ==
    /\ op = "make_move"
    /\ ret = TRUE
    /\ ~wasOver
    /\ IsFull(board)
    /\ winner = argMark
    /\ game_over

\* C5: after a successful move that neither wins nor fills the board,
\* current_player is the mark that did not just move, whatever mark moved.
C5_TurnPassesToOtherMark ==
    (/\ op = "make_move"
     /\ ret = TRUE
     /\ ~HasLine(board, argMark)
     /\ ~IsFull(board))
        => current_player = OtherMark(argMark)

Ascending(seq) == \A i, j \in 1..Len(seq) : i < j => seq[i] < seq[j]

\* C13: a successful make_move takes exactly the played index out of
\* available_moves: the list is one shorter, still ascending, and holds the
\* other indices it held; no call but reset() puts an index back; after
\* reset() the list is 0..8 in ascending order.
C13_MoveRemovesPlayedIndex ==
    [][\E before \in {AvailableMoves(board)}, after \in {AvailableMoves(board')} :
       /\ (op' = "make_move" /\ ret' = TRUE) =>
             \E i \in 1..Len(before) :
                /\ board'[before[i]] = argMark'
                /\ \A q \in Cells \ {before[i]} : board'[q] = board[q]
                /\ after = [j \in 1..(Len(before) - 1) |->
                               IF j < i THEN before[j] ELSE before[j + 1]]
       /\ (op' = "make_move" /\ ret' = FALSE) => after = before
       /\ op' # "reset" =>
             \A j \in 1..Len(after) : board[after[j]] = Empty
       /\ op' = "reset" => after = <<0, 1, 2, 3, 4, 5, 6, 7, 8>>
       /\ Ascending(after)]_vars

\* a move accepted after the game was over has left two indices available
C13_Witness ==
    /\ op = "make_move"
    /\ ret = TRUE
    /\ wasOver
    /\ AvailableMoves(board) = <<3, 7>>

(***************************************************************************)
(* Properties of the agent                                                 *)
(***************************************************************************)
ValueOf(values, k) == IF k \in DOMAIN values THEN values[k] ELSE Zero

AfterMove(b, m, mark) == GetState([b EXCEPT ![m] = mark])

\* the available moves whose after-move board has the maximum value
ArgMaxMoves(b, mark, values) ==
    {m \in AvailableSet(b) :
        \A n \in AvailableSet(b) :
            ~RLess(ValueOf(values, AfterMove(b, m, mark)),
                   ValueOf(values, AfterMove(b, n, mark)))}

\* C6: choose_action leaves the value table as it was: the same keys, the
\* same values, the same visit counts.
C6_ChooseActionReadOnly ==
    [][op' = "choose_action" =>
          (state_values' = state_values /\ state_visits' = state_visits)]_vars

\* C7: with epsilon = 0 and an empty cell on the board, the move returned is
\* one of the available moves of maximum after-move value, and the list
\* random.choice draws from holds exactly those moves, so each can be returned.
C7_GreedyPicksExactlyTheTiedMaxima ==
    (epsilon = Zero /\ AvailableSet(board) # {}) =>
        /\ op = "choose_action" => ret \in ArgMaxMoves(board, argMark, state_values)
        /\ \A player \in Marks, draw \in RandomDraws :
              LET r == ChooseActionResult(board, player, state_values, epsilon, draw) IN
              {r.choices[i] : i \in 1..Len(r.choices)}
                  = ArgMaxMoves(board, player, state_values)

\* a greedy choice among two tied maxima of positive value, the third move
\* valued lower
C7_Witness ==
    /\ op = "choose_action"
    /\ epsilon = Zero
    /\ Cardinality(AvailableSet(board)) = 3
    /\ Cardinality(ArgMaxMoves(board, argMark, state_values)) = 2
    /\ \E m \in ArgMaxMoves(board, argMark, state_values) :
          RLess(Zero, ValueOf(state_values, AfterMove(board, m, argMark)))
    /\ ret \in ArgMaxMoves(board, argMark, state_values)

\* C8: choose_action leaves board, current_player, winner and game_over as
\* they were, in the exploration and in the exploitation branch.
C8_ChooseActionKeepsSession ==
    [][op' = "choose_action" => UNCHANGED gameVars]_vars

\* a move returned by the exploitation branch
C8_Witness ==
    /\ op = "choose_action"
    /\ callKind = "exploit"
    /\ AvailableSet(board) # {}
    /\ board[ret] = Empty

\* C9: a key's visit count is the number of its occurrences in the state
\* histories learned so far, its value the mean of the rewards of those
\* occurrences (so r after one update from the default), and learn never
\* divides by zero.
C9_ValueIsMeanOfRewards ==
    /\ op = "learn" => ret # "ZeroDivisionError"
    /\ DOMAIN state_visits = DOMAIN occurrences
    /\ \A k \in DOMAIN occurrences :
          /\ state_visits[k] = occurrences[k].count
          /\ k \in DOMAIN state_values
          /\ state_values[k] = RDivInt(occurrences[k].sum, occurrences[k].count)
    /\ \A k \in DOMAIN state_values \ DOMAIN occurrences : state_values[k] = Zero

\* a key learned three times, with rewards 1.0, 0.0 and 0.0 in some order
C9_Witness ==
    /\ op = "learn"
    /\ \E k \in DOMAIN occurrences :
          /\ occurrences[k].count = 3
          /\ occurrences[k].sum = One
          /\ state_values[k] = <<1, 3>>

\* b lies between a and r, the ends included
Toward(a, b, r) ==
    /\ ~RLess(r, a) => (~RLess(b, a) /\ ~RLess(r, b))
    /\ ~RLess(a, r) => (~RLess(a, b) /\ ~RLess(b, r))

OccurrencesOf(occ, k) ==
    IF k \in DOMAIN occ THEN occ[k] ELSE [count |-> 0, sum |-> Zero]

\* C14: every call of learn with reward r leaves the value of each key of
\* its state history between the value before the call and r: no farther
\* from r than before and not past r, whatever value and visit count the key
\* had before.
C14_ValueMovesTowardReward ==
    [][op' = "learn" =>
          \A k \in DOMAIN occurrences' :
             \E was \in {OccurrencesOf(occurrences, k)} :
                occurrences'[k].count > was.count =>
                   Toward(ValueOf(state_values, k), state_values'[k],
                          RDivInt(RSub(occurrences'[k].sum, was.sum),
                                  occurrences'[k].count - was.count))]_vars

\* a key updated three times, with rewards that sum to 2.0, whose value 2/3
\* lies strictly between the rewards it was given
C14_Witness ==
    /\ op = "learn"
    /\ \E k \in DOMAIN occurrences :
          /\ occurrences[k].count = 3
          /\ occurrences[k].sum = <<2, 1>>
          /\ state_values[k] = <<2, 3>>

(***************************************************************************)
(* Properties of self-play training                                        *)
(***************************************************************************)
VisitsOf(visits, k) == IF k \in DOMAIN visits THEN visits[k] ELSE 0

Elements(seq) == {seq[i] : i \in 1..Len(seq)}

\* C10: an episode ends with learn called exactly once on X's trajectory and
\* once on O's, with rewards 1.0/0.0 for winner X, 0.0/1.0 for winner O and
\* 0.5/0.5 for a tie, and the visit count of every key of either trajectory
\* is one more than at the start of the episode, every other count the same.
C10_EpisodeLearnsBothTrajectoriesOnce ==
    (op = "learn" /\ pc \in {"for", "returned"}) =>
        /\ Len(learnLog) = 2
        /\ learnLog[1].state_history = x_states
        /\ learnLog[2].state_history = o_states
        /\ winner = "X" => (learnLog[1].reward = One /\ learnLog[2].reward = Zero)
        /\ winner = "O" => (learnLog[1].reward = Zero /\ learnLog[2].reward = One)
        /\ winner = None => (learnLog[1].reward = Half /\ learnLog[2].reward = Half)
        /\ \A k \in DOMAIN state_visits \cup DOMAIN visitsAtStart
                    \cup Elements(x_states) \cup Elements(o_states) :
              VisitsOf(state_visits, k) =
                  VisitsOf(visitsAtStart, k)
                      + (IF k \in Elements(x_states) \cup Elements(o_states) THEN 1 ELSE 0)

\* an episode O has won has been learned: X's states with 0.0, O's with 1.0
C10_Witness ==
    /\ op = "learn"
    /\ pc \in {"for", "returned"}
    /\ winner = "O"
    /\ Len(o_states) >= 3
    /\ \A k \in Elements(o_states) : k \in DOMAIN state_values /\ state_values[k] = One
    /\ \A k \in Elements(x_states) : k \in DOMAIN state_values /\ state_values[k] = Zero

\* the episodes learned so far: every episode's first recorded state is the
\* empty board, so it occurs once in each episode's state history of X
EpisodesLearned ==
    IF GetState(EmptyBoard) \in DOMAIN occurrences
    THEN occurrences[GetState(EmptyBoard)].count
    ELSE 0

\* C11: when train_agent(agent, episodes) returns it has played and learned
\* exactly `episodes` episodes, for counts of 1000 and more as well.
C11_TrainsEveryEpisode ==
    pc = "returned" => EpisodesLearned = episodes

CountMark(b, m) == Cardinality({i \in DOMAIN b : b[i] = m})

MarksOn(b) == CountMark(b, "X") + CountMark(b, "O")

\* the game of the current episode is over and its trajectories are still held
EpisodeOver == (pc = "while" /\ game_over) \/ (op = "learn" /\ pc \in {"for", "returned"})

\* C16: in self-play every move choose_action returns is an empty cell and
\* every make_move succeeds; each turn of the loop records one state and
\* fills one cell, the marks alternating from X; an episode ends after 5 to 9
\* moves with 3 to 5 keys in X's trajectory and 2 to 4 in O's, X's having as
\* many as O's or one more; choose_action never raises.
C16_EpisodeLengthBounded ==
    \E nx \in {CountMark(board, "X")}, no \in {CountMark(board, "O")} :
    /\ pc # "raised"
    /\ op = "make_move" =>
          /\ ret = TRUE
          /\ callKind = "empty"
          /\ argMark = (IF (nx + no) % 2 = 1 THEN "X" ELSE "O")
    /\ (pc = "while" \/ EpisodeOver) =>
          /\ Len(x_states) = nx
          /\ Len(o_states) = no
          /\ nx - no \in {0, 1}
          /\ nx + no <= 9
    /\ EpisodeOver =>
          /\ nx + no \in 5..9
          /\ Len(x_states) \in 3..5
          /\ Len(o_states) \in 2..4

\* an episode X has won with its third move, the fifth of the game
C16_Witness ==
    /\ op = "learn"
    /\ winner = "X"
    /\ MarksOn(board) = 5
    /\ Len(x_states) = 3
    /\ Len(o_states) = 2

\* a key recorded with m to move: as many X as O for X, one X more for O
KeyOf(k, m) ==
    CountMark(k, "X") = CountMark(k, "O") + (IF m = "X" THEN 0 ELSE 1)

\* the reward train_agent hands to learn with the trajectory of m
RewardOf(m, w) == IF w = m THEN One ELSE IF w = None THEN Half ELSE Zero

\* C17: the keys of X's trajectory have as many X as O, those of O's one X
\* more, so no key is in both; every after-move board choose_action looks
\* up for the mark M to move is a key of the kind recorded for M's opponent,
\* and each call of learn updates keys of the kind of one mark with that
\* mark's reward: the boards consulted for M carry the opponent's rewards.
C17_ConsultedKeysCarryOpponentReward ==
    /\ \A i \in 1..Len(x_states) : KeyOf(x_states[i], "X")
    /\ \A i \in 1..Len(o_states) : KeyOf(o_states[i], "O")
    /\ \A i \in 1..Len(x_states), j \in 1..Len(o_states) : x_states[i] # o_states[j]
    /\ (pc = "while" /\ ~game_over) =>
          \A m \in AvailableSet(board) :
             KeyOf(AfterMove(board, m, current_player), OtherMark(current_player))
    /\ (op = "learn" /\ pc \in {"for", "returned"}) =>
          /\ Len(learnLog) = 2
          /\ \A k \in Elements(learnLog[1].state_history) : KeyOf(k, "X")
          /\ learnLog[1].reward = RewardOf("X", winner)
          /\ \A k \in Elements(learnLog[2].state_history) : KeyOf(k, "O")
          /\ learnLog[2].reward = RewardOf("O", winner)

\* O has won, and the board that X looked up and moved to with its first
\* move holds O's reward 1.0
C17_Witness ==
    /\ op = "learn"
    /\ epsilon = Zero
    /\ winner = "O"
    /\ \E m \in Cells :
          /\ o_states[1] = AfterMove(EmptyBoard, m, "X")
          /\ state_visits[o_states[1]] = 1
          /\ state_values[o_states[1]] = One

\* the lines of the board, each as its three cells in ascending order
LineTriples == {<<0, 1, 2>>, <<3, 4, 5>>, <<6, 7, 8>>,
                <<0, 3, 6>>, <<1, 4, 7>>, <<2, 5, 8>>,
                <<0, 4, 8>>, <<2, 4, 6>>}

\* a key of a finished game: a completed line (cell i of the board is
\* character i + 1 of the key), or no empty cell
Terminal(k) ==
    \/ \E l \in LineTriples :
          /\ k[l[1] + 1] # Empty
          /\ k[l[2] + 1] = k[l[1] + 1]
          /\ k[l[3] + 1] = k[l[1] + 1]
    \/ \A i \in 1..9 : k[i] # Empty

\* C18: after every call of learn (no other step raises a visit count or
\* stores a value other than 0.0) no key with a visit count above zero has a
\* completed line or is full, and every terminal key the table holds has the
\* value 0.0; in the self-play loop every after-move board that wins or
\* fills the board is looked up as 0.0.
C18_NoTerminalBoardLearned ==
    /\ op = "learn" =>
          /\ \A k \in DOMAIN state_visits : state_visits[k] > 0 => ~Terminal(k)
          /\ \A k \in DOMAIN state_values : state_values[k] # Zero => ~Terminal(k)
    /\ (pc = "while" /\ ~game_over) =>
          \E held \in {DOMAIN state_values} :
          \A m \in AvailableSet(board) :
             \E k \in {AfterMove(board, m, current_player)} :
                (k \in held /\ state_values[k] # Zero) => ~Terminal(k)

\* an episode has been learned in which the winning move was chosen by value:
\* the final board was looked up, is held with 0.0 and was never visited
C18_Witness ==
    /\ op = "learn"
    /\ epsilon = Zero
    /\ winner # None
    /\ Cardinality(DOMAIN state_visits) >= 5
    /\ GetState(board) \in DOMAIN state_values
    /\ state_values[GetState(board)] = Zero
    /\ GetState(board) \notin DOMAIN state_visits

(***************************************************************************)
(* Properties of the loops that call the agent                             *)
(***************************************************************************)
\* C12: in the loops of train_agent and play_game a game that is not over
\* has an empty cell, so choose_action is never handed a full board there
\* and never raises; called on a full board, it raises from random.choice in
\* the exploration and in the exploitation branch, returning no move.
C12_NoChoiceOnFullBoard ==
    /\ (pc \in {"while", "play"} /\ ~game_over) => AvailableSet(board) # {}
    /\ pc # "raised"
    /\ IsFull(board) =>
          /\ \A player \in Marks, draw \in RandomDraws :
                ChooseActionResult(board, player, state_values, epsilon, draw).choices
                    = <<>>
          /\ op = "choose_action" => ret = "IndexError"

\* choose_action has been called on a tied, full board and has raised from
\* its exploitation branch
C12_Witness ==
    /\ op = "choose_action"
    /\ callKind = "exploit"
    /\ IsFull(board)
    /\ winner = None
    /\ ret = "IndexError"

\* C19: in the loops of train_agent and play_game make_move is called only
\* while game_over is false; winner goes from unset to the mark that moved
\* at most once per game and then keeps its value until the next reset();
\* a game that has ended with a winner has current_player equal to it.
C19_WinnerSetOnceAndKeepsTurn ==
    /\ []((game_over /\ winner # None) => current_player = winner)
    /\ [][/\ board' # board =>
                /\ op' \in {"make_move", "reset"}
                /\ op' = "make_move" => (~game_over /\ ~wasOver' /\ ret' = TRUE)
          /\ (op' # "reset" /\ winner # None) => winner' = winner
          /\ (winner = None /\ winner' # None) =>
                /\ op' = "make_move"
                /\ winner' \in Marks
                /\ winner' = argMark'
                /\ game_over'
                /\ current_player' = current_player
          /\ (op' = "reset") => (winner' = None /\ ~game_over')]_vars

\* the agent, playing O against a human, has won the game in play_game
C19_Witness ==
    /\ pc = "play"
    /\ op = "make_move"
    /\ human_player = "X"
    /\ winner = "O"
    /\ current_player = "O"
    /\ game_over

(***************************************************************************)
(* Properties of the replay menu                                           *)
(***************************************************************************)
\* C15: after a finished game the menu prompts at most max_attempts (4)
\* times; it stops prompting at the first answer that is 'yes' or 'no' (in
\* any letter case) or at the fourth answer that is neither; on 'yes' exactly
\* one further game is started, on 'no' and after four answers that are
\* neither the program ends and no game is started.
C15_ReplayMenuBounded ==
    /\ [](/\ prompts <= max_attempts
          /\ attempts <= prompts
          /\ pc = "prompt" => (attempts = prompts /\ attempts < max_attempts)
          /\ pc = "decide" =>
                \/ (play_again \in {"yes", "no"} /\ prompts = attempts + 1)
                \/ (play_again \notin {"yes", "no"} /\ attempts = max_attempts
                       /\ prompts = max_attempts))
    /\ [][/\ (pc = "decide" /\ play_again = "yes") => (pc' = "start" /\ games' = games)
          /\ pc = "start" => (pc' = "play" /\ games' = games + 1)
          /\ pc # "start" => games' = games
          /\ (pc = "decide" /\ play_again # "yes") => pc' = "exited"
          /\ pc # "exited"]_vars

\* a second game was started by 'yes'; after it four answers that were
\* neither 'yes' nor 'no' have ended the program
C15_Witness ==
    /\ pc = "exited"
    /\ games = 2
    /\ play_again \notin {"yes", "no"}
    /\ attempts = max_attempts
    /\ prompts = max_attempts

====
